---------------------------- MODULE Spec2Model ----------------------------
(***************************************************************************)
(* Model of the car-pricing ML component: the dataset preparation pipeline *)
(* (src/src/data/dataset.py), the outlier detectors and the value          *)
(* validator (src/src/utils/utilities.py) and their parameters             *)
(* (src/src/config.py).                                                    *)
(*                                                                         *)
(* Data representation                                                     *)
(*   - a cell value is a record [t |-> type tag, v |-> payload]:           *)
(*       "str"   : v is a sequence of tokens (digits, ".", " ", words), so *)
(*                 "2.5 Turbo" is <<"2", ".", "5", " ", "Turbo">>;         *)
(*       "int"   : v is the integer;                                       *)
(*       "float" : v is the number in tenths (2.5 is 25);                  *)
(*       "bool"  : v is the boolean;                                       *)
(*   - a row is [id |-> position in the original frame, c |-> function     *)
(*     from column name to cell]; id is a history field that survives      *)
(*     reset_index, used to state where an output row comes from;          *)
(*   - a frame (pandas DataFrame) is [cols |-> sequence of column names,   *)
(*     rows |-> sequence of rows].                                         *)
(***************************************************************************)
EXTENDS Integers, Sequences, FiniteSets, TLC

(***************************************************************************)
(* Cells                                                                   *)
(***************************************************************************)
StrCell(tokens) == [t |-> "str", v |-> tokens]

IntCell(n) == [t |-> "int", v |-> n]

FloatCell(tenths) == [t |-> "float", v |-> tenths]

BoolCell(b) == [t |-> "bool", v |-> b]

IsNumber(x) == x.t \in {"int", "float", "bool"}

\* The numeric value of a number cell, in tenths.
Tenths(x) ==
    IF x.t = "int" THEN 10 * x.v
    ELSE IF x.t = "float" THEN x.v
    ELSE IF x.v THEN 10 ELSE 0

(***************************************************************************)
(* Text: str.replace, the 'in' operator, int() and float() on token        *)
(* sequences.                                                              *)
(***************************************************************************)
Digits == {"0", "1", "2", "3", "4", "5", "6", "7", "8", "9"}

DigitVal(d) ==
    CASE d = "0" -> 0 [] d = "1" -> 1 [] d = "2" -> 2 [] d = "3" -> 3
      [] d = "4" -> 4 [] d = "5" -> 5 [] d = "6" -> 6 [] d = "7" -> 7
      [] d = "8" -> 8 [] d = "9" -> 9

StartsWith(s, pat) ==
    /\ Len(s) >= Len(pat)
    /\ SubSeq(s, 1, Len(pat)) = pat

\* str.replace(pat, ''): every non-overlapping occurrence, left to right.
RECURSIVE str_replace(_, _)
str_replace(s, pat) ==
    IF s = <<>> THEN <<>>
    ELSE IF StartsWith(s, pat) THEN str_replace(SubSeq(s, Len(pat) + 1, Len(s)), pat)
    ELSE <<Head(s)>> \o str_replace(Tail(s), pat)

\* 'word' in s
str_contains(s, word) == \E i \in 1..Len(s) : s[i] = word

AllDigits(s) == s # <<>> /\ \A i \in 1..Len(s) : s[i] \in Digits

RECURSIVE DigitsValue(_)
DigitsValue(s) ==
    IF s = <<>> THEN 0
    ELSE 10 * DigitsValue(SubSeq(s, 1, Len(s) - 1)) + DigitVal(s[Len(s)])

\* int(text) succeeds on a non-empty run of digits.
CanParseInt(s) == AllDigits(s)

ParseInt(s) == DigitsValue(s)

\* float(text) succeeds on digits, optionally followed by "." and one digit
\* (the texts of the model have at most one fractional digit); in tenths.
DotAt(s) == IF \E i \in 1..Len(s) : s[i] = "."
            THEN CHOOSE i \in 1..Len(s) : s[i] = "." /\ \A j \in 1..(i - 1) : s[j] # "."
            ELSE 0

CanParseFloat(s) ==
    IF DotAt(s) = 0 THEN AllDigits(s)
    ELSE /\ AllDigits(SubSeq(s, 1, DotAt(s) - 1))
         /\ Len(s) = DotAt(s) + 1
         /\ s[Len(s)] \in Digits

ParseFloat(s) ==
    IF DotAt(s) = 0 THEN 10 * DigitsValue(s)
    ELSE 10 * DigitsValue(SubSeq(s, 1, DotAt(s) - 1)) + DigitVal(s[Len(s)])

(***************************************************************************)
(* Outlier detectors (UtilityManager.Data).  A column is a sequence; the   *)
(* result is the set of flagged positions (the index of the returned       *)
(* frame).                                                                 *)
(***************************************************************************)
\* df[feature].value_counts()[x]
value_counts(col, x) == Cardinality({i \in 1..Len(col) : col[i] = x})

\* mask = df[feature].isin(counts[counts <= min_freq].index)
find_outliers_categorical(col, min_freq) ==
    {i \in 1..Len(col) : value_counts(col, col[i]) <= min_freq}

\* percentage_outliers = (num_outliers / total_data_points) * 100 divides
\* by the number of rows: ZeroDivisionError on an empty frame.
percentage_raises(col) == Len(col) = 0

\* The k-th smallest value of a non-empty integer column, k in 1..Len.
KthSmallest(vals, k) ==
    CHOOSE x \in {vals[i] : i \in 1..Len(vals)} :
        /\ Cardinality({i \in 1..Len(vals) : vals[i] < x}) < k
        /\ Cardinality({i \in 1..Len(vals) : vals[i] <= x}) >= k

\* Four times values.quantile(p / 4) with pandas' linear interpolation:
\* position (n - 1) * p / 4 between the two neighbouring order statistics.
quantile_x4(vals, p) ==
    LET pos4 == (Len(vals) - 1) * p
        lo   == pos4 \div 4
        r    == pos4 % 4
        a    == KthSmallest(vals, lo + 1)
        b    == IF r = 0 THEN a ELSE KthSmallest(vals, lo + 2)
    IN  4 * a + r * (b - a)

\* int(round(num / den)): Python rounds halves to the even neighbour.
round_half_even(num, den) ==
    LET q == num \div den
        r == num % den
    IN  IF 2 * r < den THEN q
        ELSE IF 2 * r > den THEN q + 1
        ELSE IF q % 2 = 0 THEN q ELSE q + 1

q25(vals) == round_half_even(quantile_x4(vals, 1), 4)

q75(vals) == round_half_even(quantile_x4(vals, 3), 4)

iqr_value(vals) == q75(vals) - q25(vals)

lower_bound_widen(vals, k, min_value) ==
    LET lb == k[2] * q25(vals) - k[1] * iqr_value(vals)
    IN  IF lb > k[2] * min_value THEN k[2] * min_value ELSE lb

\* The IQR multiplier is the rational k[1] / k[2]; the bounds are kept
\* multiplied by k[2] so that they stay integers.
lower_bound(vals, k, min_value) ==
    LET lb == k[2] * q25(vals) - k[1] * iqr_value(vals)
    IN  IF lb < k[2] * min_value THEN k[2] * min_value ELSE lb

upper_bound(vals, k, max_value) ==
    LET ub == k[2] * q75(vals) + k[1] * iqr_value(vals)
    IN  IF ub > k[2] * max_value THEN k[2] * max_value ELSE ub

find_outliers_numeric_le(vals, k, min_value, max_value) ==
    LET lb == lower_bound(vals, k, min_value)
        ub == upper_bound(vals, k, max_value)
    IN  {i \in 1..Len(vals) : k[2] * vals[i] <= lb \/ k[2] * vals[i] >= ub}

\* mask_outliers = (df[feature] < lower_bound) | (df[feature] > upper_bound)
find_outliers_numeric(vals, k, min_value, max_value) ==
    LET lb == lower_bound(vals, k, min_value)
        ub == upper_bound(vals, k, max_value)
    IN  {i \in 1..Len(vals) : k[2] * vals[i] < lb \/ k[2] * vals[i] > ub}

\* int(round(nan)) on an empty column raises ValueError.
quantile_raises(vals) == Len(vals) = 0

(***************************************************************************)
(* Parameters (Def.Data.Param)                                             *)
(***************************************************************************)
MIN_FREQ_MAKE == 5

MIN_FREQ_MODEL == 3

MIN_FREQ_BODY_CATEGORY == 10

IQR_THRESHOLD_PROD_YEAR == <<7, 1>>

IQR_THRESHOLD_MILEAGE == <<3, 1>>

IQR_THRESHOLD_PRICE == <<15, 2>>

(***************************************************************************)
(* Feature schema (Def.Data.VALIDATOR).  config.py loads it from the       *)
(* document src/data/validator.json, which is not among the sources; the   *)
(* entries below follow the schema the specification describes, reduced to *)
(* one or two features of each kind.  Two variants are checked: one with a *)
(* logical feature and one in which that feature is categorical.           *)
(***************************************************************************)
Categorical(values) == [type |-> "categorical", values |-> values, min |-> 0, max |-> 0]

Numerical(lo, hi) == [type |-> "numerical", values |-> {}, min |-> lo, max |-> hi]

Logical == [type |-> "logical", values |-> {}, min |-> 0, max |-> 0]

SchemaNames ==
    <<"Manufacturer", "Model", "Prod. year", "Category", "Mileage", "Fuel type",
      "Engine volume", "Leather interior", "isTurbo", "Price">>

SchemaInfo(leather) ==
    [f \in {SchemaNames[i] : i \in 1..Len(SchemaNames)} |->
        CASE f = "Manufacturer"     -> Categorical({<<"Toyota">>, <<"Honda">>})
          [] f = "Model"            -> Categorical({<<"Camry">>, <<"Prius">>, <<"Civic">>})
          [] f = "Prod. year"       -> Numerical(1990, 2024)
          [] f = "Category"         -> Categorical({<<"Sedan">>, <<"Jeep">>})
          [] f = "Mileage"          -> Numerical(0, 500000)
          [] f = "Fuel type"        -> Categorical({<<"Petrol">>, <<"Diesel">>})
          [] f = "Engine volume"    -> Numerical(0, 10)
          [] f = "Leather interior" -> leather
          [] f = "isTurbo"          -> Categorical({<<"Yes">>, <<"No">>})
          [] f = "Price"            -> Numerical(1000, 100000)]

SchemaLogical == [names |-> SchemaNames, info |-> SchemaInfo(Logical)]

SchemaCategorical ==
    [names |-> SchemaNames, info |-> SchemaInfo(Categorical({<<"Yes">>, <<"No">>}))]

Schemas == {SchemaLogical, SchemaCategorical}

\* target='Price' at every construction of a DatasetManager.
target == "Price"

(***************************************************************************)
(* Frames                                                                  *)
(***************************************************************************)
Range(s) == {s[i] : i \in 1..Len(s)}

HasCol(d, c) == c \in Range(d.cols)

\* df[c] as a sequence of cells
Col(d, c) == [i \in 1..Len(d.rows) |-> d.rows[i].c[c]]

\* df[c] = cells: a new column goes last, an existing one keeps its place.
SetCol(d, c, cells) ==
    [cols |-> IF HasCol(d, c) THEN d.cols ELSE Append(d.cols, c),
     rows |-> [i \in 1..Len(d.rows) |->
                 [id |-> d.rows[i].id,
                  c  |-> [x \in Range(d.cols) \cup {c} |->
                            IF x = c THEN cells[i] ELSE d.rows[i].c[x]]]]]

\* The rows from position i on whose position is not flagged.
RECURSIVE Unflagged(_, _, _)
Unflagged(rows, flagged, i) ==
    IF i > Len(rows) THEN <<>>
    ELSE IF i \in flagged THEN Unflagged(rows, flagged, i + 1)
    ELSE <<rows[i]>> \o Unflagged(rows, flagged, i + 1)

Drop_concat(d, flagged) ==
    [cols |-> d.cols,
     rows |-> d.rows \o Unflagged(d.rows, (1..Len(d.rows)) \ flagged, 1)]

\* df.drop(outliers.index).reset_index(drop=True)
Drop(d, flagged) == [cols |-> d.cols, rows |-> Unflagged(d.rows, flagged, 1)]

\* df[features]
Project(d, features) ==
    [cols |-> features,
     rows |-> [i \in 1..Len(d.rows) |->
                 [id |-> d.rows[i].id,
                  c  |-> [x \in Range(features) |-> d.rows[i].c[x]]]]]

Ids(d) == {d.rows[i].id : i \in 1..Len(d.rows)}

NoFrame == [cols |-> <<>>, rows |-> <<>>]

(***************************************************************************)
(* Exceptions                                                              *)
(***************************************************************************)
NoCell == [t |-> "none", v |-> 0]

NoErr == [type |-> "none", what |-> "", feature |-> "", value |-> NoCell]

Raise(type, what, feature, value) ==
    [type |-> type, what |-> what, feature |-> feature, value |-> value]

Ok(d) == [df |-> d, err |-> NoErr]

Fail(d, e) == [df |-> d, err |-> e]

(***************************************************************************)
(* State                                                                   *)
(***************************************************************************)
VARIABLES
    VALIDATOR,          \* Def.Data.VALIDATOR, the feature schema
    is_inference,       \* DatasetManager.is_inference
    to_save,            \* the to_save argument of execute_preparation
    disk,               \* the table stored at DatasetManager.path
    df,                 \* DatasetManager.df (NoFrame while not loaded)
    is_loaded,          \* DatasetManager.is_loaded
    is_processed,       \* DatasetManager.is_processed
    relevant_features,  \* DatasetManager.relevant_features
    pc,                 \* position inside execute_preparation
    ci,                 \* how many detectors of clean_data have been applied
    err,                \* the exception that left execute_preparation
    saved,              \* the processed table was written
    trace,              \* history: the pipeline methods called, in order
    seen,               \* history: per detector, the rows it saw and flagged
    call,               \* a single call of an outlier detector
    from_processed,     \* history: the table is a saved output of a preparation
    train_data,         \* DatasetManager.train_data (NoFrame while None)
    test_data,          \* DatasetManager.test_data (NoFrame while None)
    split_call,         \* history: the argument and the outcome of split
    IS_LOCAL,           \* Def.Env.IS_LOCAL
    remote,             \* the latest model file in the bucket (0: none)
    model,              \* api.model, a reference into heap (0: None)
    model_version,      \* api.model_version (0: None)
    model_lock,         \* api.model_lock: the thread holding it (0: free)
    heap,               \* the PricingModel objects constructed so far
    th,                 \* per request thread: position and locals of car_pricing
    mgr,                \* the DatasetManager instances that run side by side
    lists               \* the relevant_features list objects of those instances

vars == <<VALIDATOR, is_inference, to_save, disk, df, is_loaded, is_processed,
          relevant_features, pc, ci, err, saved, trace, seen, call, from_processed,
          train_data, test_data, split_call,
          IS_LOCAL, remote, model, model_version, model_lock, heap, th,
          mgr, lists>>

splitVars == <<train_data, test_data, split_call>>

apiVars == <<IS_LOCAL, remote, model, model_version, model_lock, heap, th>>

managerVars == <<mgr, lists>>

(***************************************************************************)
(* DatasetManager.__init__: the feature lists, in schema order             *)
(***************************************************************************)
RECURSIVE Filter(_, _)
Filter(names, keep) ==
    IF names = <<>> THEN <<>>
    ELSE IF Head(names) \in keep THEN <<Head(names)>> \o Filter(Tail(names), keep)
    ELSE Filter(Tail(names), keep)

OfType(type) == {f \in Range(VALIDATOR.names) : VALIDATOR.info[f].type = type}

categorical_features == Filter(VALIDATOR.names, OfType("categorical"))

numerical_features == Filter(VALIDATOR.names, OfType("numerical"))

binary_features == Filter(VALIDATOR.names, OfType("logical"))

(***************************************************************************)
(* UtilityManager.Data.Validator.validate_feature_value: "True", "False",  *)
(* or the exception it raises.                                             *)
(***************************************************************************)
validate_feature_value(feature, value) ==
    IF feature \notin Range(VALIDATOR.names) THEN "ValueError"
    ELSE LET feature_info == VALIDATOR.info[feature]
         IN  IF feature_info.type = "categorical"
             THEN IF value.t = "str" /\ value.v \in feature_info.values
                  THEN "True" ELSE "False"
             ELSE IF feature_info.type = "numerical"
             \* comparing a number with text raises TypeError
             THEN IF ~IsNumber(value) THEN "TypeError"
                  ELSE IF /\ 10 * feature_info.min <= Tenths(value)
                          /\ Tenths(value) <= 10 * feature_info.max
                  THEN "True" ELSE "False"
             ELSE "False"

(***************************************************************************)
(* DatasetManager methods, each as a function from the frame to the frame  *)
(* it leaves in self.df and the exception it raises (NoErr when none).     *)
(***************************************************************************)
\* The first of a set of positions, 0 if there is none.
First(positions) ==
    IF positions = {} THEN 0
    ELSE CHOOSE i \in positions : \A j \in positions : i <= j

validate_data_no_count(d, inference) ==
    LET outcome(i) == validate_feature_value(d.cols[i], d.rows[1].c[d.cols[i]])
        bad == First({i \in 1..Len(d.cols) : outcome(i) # "True"})
    IN  IF d.cols # <<>> /\ d.rows = <<>>
        THEN Fail(d, Raise("IndexError", "single positional indexer is out-of-bounds", "", NoCell))
        ELSE IF bad = 0 THEN Ok(d)
        ELSE IF outcome(bad) = "ValueError"
        THEN Fail(d, Raise("ValueError", "Feature is not valid", d.cols[bad], NoCell))
        ELSE IF outcome(bad) = "TypeError"
        THEN Fail(d, Raise("TypeError", "'<=' not supported", d.cols[bad], NoCell))
        ELSE Fail(d, Raise("ValueError", "Invalid value for feature", d.cols[bad],
                           d.rows[1].c[d.cols[bad]]))

validate_data(d, inference) ==
    LET outcome(i) == validate_feature_value(d.cols[i], d.rows[1].c[d.cols[i]])
        bad == First({i \in 1..Len(d.cols) : outcome(i) # "True"})
    IN  IF inference /\ Len(d.rows) # 1
        THEN Fail(d, Raise("ValueError", "The instance should contain exactly one row", "", NoCell))
        \* df.iloc[0] on an empty frame
        ELSE IF d.cols # <<>> /\ d.rows = <<>>
        THEN Fail(d, Raise("IndexError", "single positional indexer is out-of-bounds", "", NoCell))
        ELSE IF bad = 0 THEN Ok(d)
        ELSE IF outcome(bad) = "ValueError"
        THEN Fail(d, Raise("ValueError", "Feature is not valid", d.cols[bad], NoCell))
        ELSE IF outcome(bad) = "TypeError"
        THEN Fail(d, Raise("TypeError", "'<=' not supported", d.cols[bad], NoCell))
        ELSE Fail(d, Raise("ValueError", "Invalid value for feature", d.cols[bad],
                           d.rows[1].c[d.cols[bad]]))

add_features_from_parsed(d) ==
    IF ~HasCol(d, "Engine volume")
    THEN Fail(d, Raise("KeyError", "missing column", "Engine volume", NoCell))
    ELSE IF \E i \in 1..Len(d.rows) : d.rows[i].c["Engine volume"].t # "str"
    THEN Fail(d, Raise("TypeError", "argument is not iterable", "Engine volume", NoCell))
    ELSE Ok(SetCol(d, "isTurbo",
                   [i \in 1..Len(d.rows) |->
                      IF str_contains(str_replace(d.rows[i].c["Engine volume"].v,
                                                  <<" ", "Turbo">>), "Turbo")
                      THEN StrCell(<<"Yes">>) ELSE StrCell(<<"No">>)]))

\* self.df['isTurbo'] = self.df['Engine volume'].apply('Yes' if 'Turbo' in x else 'No')
add_features(d) ==
    IF ~HasCol(d, "Engine volume")
    THEN Fail(d, Raise("KeyError", "missing column", "Engine volume", NoCell))
    ELSE IF \E i \in 1..Len(d.rows) : d.rows[i].c["Engine volume"].t # "str"
    THEN Fail(d, Raise("TypeError", "argument is not iterable", "Engine volume", NoCell))
    ELSE Ok(SetCol(d, "isTurbo",
                   [i \in 1..Len(d.rows) |->
                      IF str_contains(d.rows[i].c["Engine volume"].v, "Turbo")
                      THEN StrCell(<<"Yes">>) ELSE StrCell(<<"No">>)]))

\* int(text) or float(text), as astype(int) and astype(float) apply them.
CanParse(dtype, s) == IF dtype = "int" THEN CanParseInt(s) ELSE CanParseFloat(s)

Parsed(dtype, s) == IF dtype = "int" THEN IntCell(ParseInt(s)) ELSE FloatCell(ParseFloat(s))

\* One line of preprocess: the .str accessor needs a text column; the
\* replaced text is then parsed, and a text that does not parse raises.
strip_and_parse(d, feature, suffix, dtype) ==
    IF ~HasCol(d, feature)
    THEN Fail(d, Raise("KeyError", "missing column", feature, NoCell))
    ELSE IF \E i \in 1..Len(d.rows) : d.rows[i].c[feature].t # "str"
    THEN Fail(d, Raise("AttributeError", "Can only use .str accessor with string values",
                       feature, NoCell))
    ELSE LET bad == First({i \in 1..Len(d.rows) :
                             ~CanParse(dtype, str_replace(d.rows[i].c[feature].v, suffix))})
         IN  IF bad # 0
             THEN Fail(d, Raise("ValueError", "invalid literal", feature,
                                d.rows[bad].c[feature]))
             ELSE Ok(SetCol(d, feature,
                            [i \in 1..Len(d.rows) |->
                               Parsed(dtype, str_replace(d.rows[i].c[feature].v, suffix))]))

preprocess(d) ==
    LET mileage == strip_and_parse(d, "Mileage", <<" ", "km">>, "int")
    IN  IF mileage.err.type # "none" THEN mileage
        ELSE strip_and_parse(mileage.df, "Engine volume", <<" ", "Turbo">>, "float")

\* The detectors of clean_data, in the order it applies them.
CleanSpecs ==
    << [feature |-> "Manufacturer", kind |-> "categorical",
        min_freq |-> MIN_FREQ_MAKE, k |-> <<0, 1>>],
       [feature |-> "Model", kind |-> "categorical",
        min_freq |-> MIN_FREQ_MODEL, k |-> <<0, 1>>],
       [feature |-> "Prod. year", kind |-> "numerical",
        min_freq |-> 0, k |-> IQR_THRESHOLD_PROD_YEAR],
       [feature |-> "Category", kind |-> "categorical",
        min_freq |-> MIN_FREQ_BODY_CATEGORY, k |-> <<0, 1>>],
       [feature |-> "Mileage", kind |-> "numerical",
        min_freq |-> 0, k |-> IQR_THRESHOLD_MILEAGE],
       [feature |-> "Price", kind |-> "numerical",
        min_freq |-> 0, k |-> IQR_THRESHOLD_PRICE] >>

\* The column as whole numbers (the detectors' columns hold whole numbers).
Units(d, feature) == [i \in 1..Len(d.rows) |-> Tenths(d.rows[i].c[feature]) \div 10]

\* The exception the i-th detector raises on the frame, NoErr if none.
clean_error(d, i) ==
    LET feature == CleanSpecs[i].feature
    IN  IF ~HasCol(d, feature)
        THEN Raise("KeyError", "missing column", feature, NoCell)
        ELSE IF CleanSpecs[i].kind = "categorical"
        THEN IF percentage_raises(Col(d, feature))
             THEN Raise("ZeroDivisionError", "division by zero", feature, NoCell)
             ELSE NoErr
        ELSE IF \E r \in 1..Len(d.rows) : ~IsNumber(d.rows[r].c[feature])
        THEN Raise("TypeError", "quantile of a text column", feature, NoCell)
        ELSE IF quantile_raises(Units(d, feature))
        THEN Raise("ValueError", "cannot convert float NaN to integer", feature, NoCell)
        ELSE NoErr

\* The positions the i-th detector flags on the frame.
clean_outliers(d, i) ==
    LET feature == CleanSpecs[i].feature
    IN  IF CleanSpecs[i].kind = "categorical"
        THEN find_outliers_categorical(Col(d, feature), CleanSpecs[i].min_freq)
        ELSE find_outliers_numeric(Units(d, feature), CleanSpecs[i].k,
                                   VALIDATOR.info[feature].min, VALIDATOR.info[feature].max)

clean_step_not_assigned(d, i) ==
    IF clean_error(d, i).type # "none" THEN Fail(d, clean_error(d, i))
    ELSE Ok(d)

\* One detector of clean_data followed by
\* self.df = self.df.drop(outliers.index).reset_index(drop=True)
clean_step(d, i) ==
    IF clean_error(d, i).type # "none" THEN Fail(d, clean_error(d, i))
    ELSE Ok(Drop(d, clean_outliers(d, i)))

RECURSIVE RemoveFirst(_, _)
RemoveFirst(s, x) ==
    IF s = <<>> THEN <<>>
    ELSE IF Head(s) = x THEN Tail(s)
    ELSE <<Head(s)>> \o RemoveFirst(Tail(s), x)

select_features_keep_target(d, features, inference) ==
    IF \E i \in 1..Len(features) : ~HasCol(d, features[i])
    THEN [df |-> d, features |-> features,
          err |-> Raise("KeyError", "not in index",
                        features[First({i \in 1..Len(features) : ~HasCol(d, features[i])})],
                        NoCell)]
    ELSE [df |-> Project(d, features), features |-> features, err |-> NoErr]

\* features is self.relevant_features itself: remove() changes that list.
select_features(d, features, inference) ==
    LET selected == IF inference /\ target \in Range(features)
                    THEN RemoveFirst(features, target) ELSE features
    IN  IF \E i \in 1..Len(selected) : ~HasCol(d, selected[i])
        THEN [df |-> d, features |-> selected,
              err |-> Raise("KeyError", "not in index",
                            selected[First({i \in 1..Len(selected) : ~HasCol(d, selected[i])})],
                            NoCell)]
        ELSE [df |-> Project(d, selected), features |-> selected, err |-> NoErr]

DigitTok(n) ==
    CASE n = 0 -> "0" [] n = 1 -> "1" [] n = 2 -> "2" [] n = 3 -> "3" [] n = 4 -> "4"
      [] n = 5 -> "5" [] n = 6 -> "6" [] n = 7 -> "7" [] n = 8 -> "8" [] n = 9 -> "9"

RECURSIVE ToDigits(_)
ToDigits(n) == IF n < 10 THEN <<DigitTok(n)>> ELSE ToDigits(n \div 10) \o <<DigitTok(n % 10)>>

\* astype(str) of one cell
astype_str(x) ==
    IF x.t = "str" THEN x
    ELSE IF x.t = "bool" THEN StrCell(IF x.v THEN <<"True">> ELSE <<"False">>)
    ELSE IF x.t = "int" THEN StrCell(ToDigits(x.v))
    ELSE StrCell(ToDigits(x.v \div 10) \o <<".", DigitTok(x.v % 10)>>)

\* astype(float) of one cell; text that is no number raises ValueError
can_astype_float(x) == x.t = "str" => CanParseFloat(x.v)

astype_float(x) == IF x.t = "str" THEN FloatCell(ParseFloat(x.v)) ELSE FloatCell(Tenths(x))

\* for feature in self.numerical_features: ... astype(float)
RECURSIVE set_types_numerical(_, _, _)
set_types_numerical(d, features, inference) ==
    IF features = <<>> THEN Ok(d)
    ELSE LET feature == Head(features)
         IN  IF inference /\ feature = target
             THEN set_types_numerical(d, Tail(features), inference)
             ELSE IF ~HasCol(d, feature)
             THEN Fail(d, Raise("KeyError", "missing column", feature, NoCell))
             ELSE IF \E i \in 1..Len(d.rows) : ~can_astype_float(d.rows[i].c[feature])
             THEN Fail(d, Raise("ValueError", "could not convert string to float", feature,
                                d.rows[First({i \in 1..Len(d.rows) :
                                    ~can_astype_float(d.rows[i].c[feature])})].c[feature]))
             ELSE set_types_numerical(
                      SetCol(d, feature,
                             [i \in 1..Len(d.rows) |-> astype_float(d.rows[i].c[feature])]),
                      Tail(features), inference)

\* self.df[features] = self.df[features].astype(str)
set_types_str(d, features) ==
    IF \E i \in 1..Len(features) : ~HasCol(d, features[i])
    THEN Fail(d, Raise("KeyError", "not in index",
                       features[First({i \in 1..Len(features) : ~HasCol(d, features[i])})],
                       NoCell))
    ELSE Ok([cols |-> d.cols,
             rows |-> [i \in 1..Len(d.rows) |->
                         [id |-> d.rows[i].id,
                          c  |-> [x \in Range(d.cols) |->
                                    IF x \in Range(features)
                                    THEN astype_str(d.rows[i].c[x]) ELSE d.rows[i].c[x]]]]])

set_types_no_float(d, inference) ==
    LET categorical == set_types_str(d, categorical_features)
    IN  IF categorical.err.type # "none" THEN categorical
        ELSE set_types_str(categorical.df, binary_features)

set_types(d, inference) ==
    LET numerical == set_types_numerical(d, numerical_features, inference)
        categorical == set_types_str(numerical.df, categorical_features)
    IN  IF numerical.err.type # "none" THEN numerical
        ELSE IF categorical.err.type # "none" THEN categorical
        ELSE set_types_str(categorical.df, binary_features)

(***************************************************************************)
(* Input tables.  A raw training table is made of a block of ordinary cars *)
(* (varying year, mileage and price), a block of a less frequent model, a  *)
(* block of a rare manufacturer and at most one odd row.  Single-instance  *)
(* tables are the rows of a pricing request, the same rows with raw text   *)
(* encodings, and rows that were prepared before.                          *)
(***************************************************************************)
MaxBulk == 12

MaxFew == 4

MaxRare == 1

Cells(cols, vals) == [x \in Range(cols) |-> vals[CHOOSE i \in 1..Len(cols) : cols[i] = x]]

Frame(cols, rowvals) ==
    [cols |-> cols,
     rows |-> [i \in 1..Len(rowvals) |-> [id |-> i, c |-> Cells(cols, rowvals[i])]]]

Km80000 == <<"8", "0", "0", "0", "0", " ", "km">>

Km120000 == <<"1", "2", "0", "0", "0", "0", " ", "km">>

RawCols ==
    <<"Price", "Levy", "Manufacturer", "Model", "Prod. year", "Category",
      "Leather interior", "Fuel type", "Engine volume", "Mileage">>

RawRow(price, make, car_model, year, category, engine, mileage) ==
    <<IntCell(price), StrCell(<<"-">>), StrCell(<<make>>), StrCell(<<car_model>>), IntCell(year),
      StrCell(<<category>>), StrCell(<<"Yes">>), StrCell(<<"Petrol">>), StrCell(engine),
      StrCell(mileage)>>

BulkRow(j) ==
    RawRow(18000 + 2000 * (j % 4), "Toyota", "Camry", 2016 + (j % 3), "Sedan",
           IF j % 2 = 0 THEN <<"2", ".", "5", " ", "Turbo">> ELSE <<"2", ".", "0">>,
           IF j % 2 = 0 THEN Km80000 ELSE Km120000)

FewRow(j) == RawRow(15000, "Toyota", "Prius", 2015, "Sedan", <<"1", ".", "6">>, Km120000)

RareRow(j) == RawRow(9000, "Honda", "Prius", 2012, "Jeep", <<"2">>, Km80000)

OddRows ==
    { RawRow(900000, "Toyota", "Camry", 2017, "Sedan", <<"2", ".", "0">>, Km80000),
      RawRow(20000, "Toyota", "Camry", 1950, "Sedan", <<"2", ".", "0">>, Km80000),
      RawRow(20000, "Toyota", "Camry", 2017, "Sedan", <<"2", ".", "0">>, <<"abc", " ", "km">>),
      RawRow(20000, "Toyota", "Camry", 2017, "Sedan", <<"2", ".", "0", "Turbo">>, Km80000),
      RawRow(20000, "Toyota", "Camry", 2017, "Sedan", <<"2", ".", "0", " ", "Turbo">>, Km80000),
      RawRow(20000, "Toyota", "Camry", 2017, "Sedan", <<"Turbo", " ", "2", ".", "0">>, Km80000),
      RawRow(20000, "Toyota", "Camry", 2017, "Sedan",
             <<"2", ".", "0", " ", "Turbo", " ", "Turbo">>, Km80000) }

TrainingTables ==
    { Frame(RawCols, [j \in 1..b |-> BulkRow(j)] \o [j \in 1..f |-> FewRow(j)]
                     \o [j \in 1..r |-> RareRow(j)] \o odd) :
        b \in {0, MaxBulk - 1, MaxBulk}, f \in 0..MaxFew, r \in 0..MaxRare,
        odd \in {<<>>} \cup {<<o>> : o \in OddRows} }

\* The fields of CarInterface, in its order.
ApiCols ==
    <<"Manufacturer", "Model", "Prod. year", "Category", "Mileage", "Fuel type",
      "Engine volume", "Leather interior">>

ApiRow(category, mileage, fuel, engine) ==
    <<StrCell(<<"Toyota">>), StrCell(<<"Camry">>), IntCell(2018), StrCell(<<category>>),
      mileage, StrCell(<<fuel>>), engine, BoolCell(TRUE)>>

\* The end-to-end scenario row: raw text encodings of mileage and engine volume.
ScenarioRow == ApiRow("Sedan", StrCell(Km80000), "Petrol", StrCell(<<"2", ".", "5", " ", "Turbo">>))

ApiRows ==
    { ApiRow(category, mileage, fuel, FloatCell(25)) :
        category \in {"Sedan", "Spaceship"},
        mileage \in {IntCell(80000), IntCell(900000)},
        fuel \in {"Petrol", "Plutonium"} }

RawTextRows ==
    { ApiRow(category, StrCell(Km80000), fuel, StrCell(<<"2", ".", "5", " ", "Turbo">>)) :
        category \in {"Sedan", "Spaceship"}, fuel \in {"Petrol", "Plutonium"} }

\* Rows that a preparation has produced: schema order, typed, isTurbo present.
PreparedCols ==
    <<"Manufacturer", "Model", "Prod. year", "Category", "Mileage", "Fuel type",
      "Engine volume", "Leather interior", "isTurbo">>

PreparedRow(category, leather) ==
    <<StrCell(<<"Toyota">>), StrCell(<<"Camry">>), FloatCell(20180), StrCell(<<category>>),
      FloatCell(800000), StrCell(<<"Petrol">>), FloatCell(25), StrCell(<<leather>>),
      StrCell(<<"Yes">>)>>

PreparedRows ==
    { PreparedRow(category, leather) :
        category \in {"Sedan", "Spaceship"}, leather \in {"Yes", "True"} }

InstanceTables ==
    {Frame(ApiCols, <<r>>) : r \in ApiRows \cup RawTextRows}
    \cup {Frame(PreparedCols, <<r>>) : r \in PreparedRows}
    \cup {Frame(Append(PreparedCols, "Price"), <<Append(r, p)>>) :
            r \in PreparedRows, p \in {FloatCell(200000), FloatCell(5)}}
    \cup {Frame(ApiCols, <<>>),
          Frame(ApiCols, <<ScenarioRow, ScenarioRow>>),
          Frame(PreparedCols, <<PreparedRow("Sedan", "Yes"), PreparedRow("Sedan", "Yes")>>)}

\* The cell pd.read_csv infers for a column: whole numbers if every text of
\* the column is one, else floats if every text is a number, else the text.
read_cell(texts, i) ==
    IF \A j \in 1..Len(texts) : CanParseInt(texts[j].v) THEN IntCell(ParseInt(texts[i].v))
    ELSE IF \A j \in 1..Len(texts) : CanParseFloat(texts[j].v)
    THEN FloatCell(ParseFloat(texts[i].v))
    ELSE texts[i]

\* df.to_csv(path, index=False) followed by pd.read_csv(path, header=0): the
\* cells are written as text and read with inferred types; the index is new.
to_csv_read_csv(d) ==
    [cols |-> d.cols,
     rows |-> [i \in 1..Len(d.rows) |->
                 [id |-> i,
                  c  |-> [x \in Range(d.cols) |->
                            read_cell([j \in 1..Len(d.rows) |->
                                         astype_str(d.rows[j].c[x])], i)]]]]

Tables == TrainingTables \cup InstanceTables

(***************************************************************************)
(* The preparation pipeline                                                *)
(***************************************************************************)
\* train_data and test_data are None; split has not been called.
NoSplit == [test_size |-> NoCell, shuffle |-> <<>>, outcome |-> "none"]

InitSplit ==
    /\ train_data = NoFrame
    /\ test_data = NoFrame
    /\ split_call = NoSplit

\* No pricing service.
InitNoApi ==
    /\ IS_LOCAL = FALSE
    /\ remote = 0
    /\ model = 0
    /\ model_version = 0
    /\ model_lock = 0
    /\ heap = <<>>
    /\ th = <<>>

\* No managers side by side.
InitNoManagers ==
    /\ mgr = <<>>
    /\ lists = <<>>

NoCall ==
    [fn |-> "none", col |-> <<>>, min_freq |-> 0, k |-> <<0, 1>>,
     min_value |-> 0, max_value |-> 0, done |-> FALSE, raised |-> FALSE, out |-> {}]

\* DatasetManager(path, target, df, is_inference): df is the table or None.
Init ==
    /\ VALIDATOR \in Schemas
    /\ is_inference \in BOOLEAN
    /\ to_save \in BOOLEAN
    /\ disk \in Tables
    /\ is_loaded \in BOOLEAN
    /\ df = IF is_loaded THEN disk ELSE NoFrame
    /\ is_processed = FALSE
    /\ relevant_features = VALIDATOR.names
    /\ pc = "new"
    /\ ci = 0
    /\ err = NoErr
    /\ saved = FALSE
    /\ trace = <<>>
    /\ seen = <<>>
    /\ call = NoCall
    /\ from_processed = FALSE
    /\ InitSplit
    /\ InitNoApi
    /\ InitNoManagers

\* DatasetManager.load
load ==
    /\ pc = "new"
    /\ ~is_loaded
    /\ df' = disk
    /\ is_loaded' = TRUE
    /\ UNCHANGED <<VALIDATOR, is_inference, to_save, disk, is_processed,
                   relevant_features, pc, ci, err, saved, trace, seen, call,
                   from_processed, splitVars, apiVars, managerVars>>

\* The step that follows the loaded check of execute_preparation.
first_step_always_training(inference) == "add_features"

first_step(inference) == IF inference THEN "validate_data" ELSE "add_features"

\* execute_preparation, up to its first step
execute_preparation ==
    /\ pc = "new"
    /\ IF ~is_loaded
       THEN /\ pc' = "raised"
            /\ err' = Raise("ValueError", "Dataset is not loaded", "", NoCell)
       ELSE /\ pc' = first_step(is_inference)
            /\ err' = err
    /\ UNCHANGED <<VALIDATOR, is_inference, to_save, disk, df, is_loaded, is_processed,
                   relevant_features, ci, saved, trace, seen, call, from_processed,
                   splitVars, apiVars, managerVars>>

Step_swallow(name, result, next) ==
    /\ trace' = Append(trace, name)
    /\ df' = result.df
    /\ err' = result.err
    /\ pc' = next

\* A method of the pipeline has returned or raised.
Step(name, result, next) ==
    /\ trace' = Append(trace, name)
    /\ df' = result.df
    /\ err' = result.err
    /\ pc' = IF result.err.type # "none" THEN "raised" ELSE next

step_validate_data ==
    /\ pc = "validate_data"
    /\ Step("validate_data", validate_data(df, is_inference), "select_features")
    /\ UNCHANGED <<VALIDATOR, is_inference, to_save, disk, is_loaded, is_processed,
                   relevant_features, ci, saved, seen, call, from_processed, splitVars,
                   apiVars, managerVars>>

step_add_features ==
    /\ pc = "add_features"
    /\ Step("add_features", add_features(df), "preprocess")
    /\ UNCHANGED <<VALIDATOR, is_inference, to_save, disk, is_loaded, is_processed,
                   relevant_features, ci, saved, seen, call, from_processed, splitVars,
                   apiVars, managerVars>>

step_preprocess ==
    /\ pc = "preprocess"
    /\ Step("preprocess", preprocess(df), "clean_data")
    /\ UNCHANGED <<VALIDATOR, is_inference, to_save, disk, is_loaded, is_processed,
                   relevant_features, ci, saved, seen, call, from_processed, splitVars,
                   apiVars, managerVars>>

\* clean_data, one detector at a time
step_clean_data ==
    /\ pc = "clean_data"
    /\ LET result == clean_step(df, ci + 1)
       IN  /\ trace' = IF ci = 0 THEN Append(trace, "clean_data") ELSE trace
           /\ df' = result.df
           /\ err' = result.err
           /\ ci' = ci + 1
           /\ seen' = Append(seen,
                  [feature |-> CleanSpecs[ci + 1].feature,
                   rows    |-> Ids(df),
                   flagged |-> IF result.err.type # "none" THEN {}
                               ELSE {df.rows[i].id : i \in clean_outliers(df, ci + 1)}])
           /\ pc' = IF result.err.type # "none" THEN "raised"
                    ELSE IF ci + 1 = Len(CleanSpecs) THEN "select_features"
                    ELSE "clean_data"
    /\ UNCHANGED <<VALIDATOR, is_inference, to_save, disk, is_loaded, is_processed,
                   relevant_features, saved, call, from_processed, splitVars, apiVars, managerVars>>

step_select_features ==
    /\ pc = "select_features"
    /\ LET result == select_features(df, relevant_features, is_inference)
       IN  /\ Step("select_features", result, "set_types")
           /\ relevant_features' = result.features
    /\ UNCHANGED <<VALIDATOR, is_inference, to_save, disk, is_loaded, is_processed, ci,
                   saved, seen, call, from_processed, splitVars, apiVars, managerVars>>

step_set_types ==
    /\ pc = "set_types"
    /\ Step("set_types", set_types(df, is_inference), "save")
    /\ UNCHANGED <<VALIDATOR, is_inference, to_save, disk, is_loaded, is_processed,
                   relevant_features, ci, saved, seen, call, from_processed, splitVars,
                   apiVars, managerVars>>

\* if to_save: self.df.to_csv(path); self.is_processed = True; return self.df
step_return ==
    /\ pc = "save"
    /\ saved' = to_save
    /\ is_processed' = TRUE
    /\ pc' = "done"
    /\ UNCHANGED <<VALIDATOR, is_inference, to_save, disk, df, is_loaded,
                   relevant_features, ci, err, trace, seen, call, from_processed,
                   splitVars, apiVars, managerVars>>

\* A new training-mode manager on the processed table that the finished
\* run has saved: DatasetManager(path=get_processed_path(), ...).load()
load_processed ==
    /\ pc = "done"
    /\ saved
    /\ ~is_inference
    /\ ~from_processed
    /\ from_processed' = TRUE
    /\ disk' = to_csv_read_csv(df)
    /\ df' = disk'
    /\ is_loaded' = TRUE
    /\ is_processed' = FALSE
    /\ relevant_features' = VALIDATOR.names
    /\ pc' = "new"
    /\ ci' = 0
    /\ err' = NoErr
    /\ saved' = FALSE
    /\ trace' = <<>>
    /\ seen' = <<>>
    /\ UNCHANGED <<VALIDATOR, is_inference, to_save, call, splitVars, apiVars, managerVars>>

\* The test_size arguments of split: fractions in tenths (0.2 is the
\* default) and whole numbers, which train_test_split takes as row counts.
TestSizes ==
    {FloatCell(v) : v \in {0, 2, 5, 10, 15}} \cup {IntCell(v) : v \in {0, 1, 3}}

MaxShift == 1

\* rng.permutation(n) for random_state=Def.Env.SEED: one fixed permutation
\* per n, which the sources do not determine; any of these rotations of
\* 1..n, forwards or backwards, stands for it.
Shuffles(n) ==
    {[i \in 1..n |-> ((i + k) % n) + 1] : k \in 0..MaxShift}
    \cup {[i \in 1..n |-> ((n - i + k) % n) + 1] : k \in 0..MaxShift}

\* ceil(test_size * n_samples) for a fraction, the count itself otherwise
n_test(test_size, n_samples) ==
    IF test_size.t = "float" THEN -((-(test_size.v * n_samples)) \div 10)
    ELSE test_size.v

\* sklearn _validate_shuffle_split: the exception it raises, "none" if none.
validate_shuffle_split(test_size, n_samples) ==
    IF \/ test_size.t = "int" /\ (test_size.v >= n_samples \/ test_size.v <= 0)
       \/ test_size.t = "float" /\ (test_size.v <= 0 \/ test_size.v >= 10)
    THEN "ValueError"
    \* the resulting train set will be empty
    ELSE IF n_samples - n_test(test_size, n_samples) = 0 THEN "ValueError"
    ELSE "none"

train_test_split_overlap(d, test_size, shuffle) ==
    LET n == Len(d.rows)
        k == n_test(test_size, n)
    IN  [train |-> [cols |-> d.cols, rows |-> [i \in 1..(n - k + 1) |-> d.rows[shuffle[k + i - 1]]]],
         test  |-> [cols |-> d.cols, rows |-> [i \in 1..k |-> d.rows[shuffle[i]]]]]

\* ShuffleSplit: the first n_test positions of the permutation are the test
\* rows, the rest the train rows; train_test_split returns (train, test).
train_test_split(d, test_size, shuffle) ==
    LET n == Len(d.rows)
        k == n_test(test_size, n)
    IN  [train |-> [cols |-> d.cols, rows |-> [i \in 1..(n - k) |-> d.rows[shuffle[k + i]]]],
         test  |-> [cols |-> d.cols, rows |-> [i \in 1..k |-> d.rows[shuffle[i]]]]]

\* DatasetManager.split(test_size) on a training-mode manager, before or
\* after its preparation; it is the last call on the manager.
split ==
    /\ pc \in {"new", "done"}
    /\ ~is_inference
    /\ \E test_size \in IF is_loaded THEN TestSizes ELSE {FloatCell(2)} :
        \* train_test_split(None, ...) on a manager that is not loaded
        IF ~is_loaded
        THEN /\ split_call' = [test_size |-> test_size, shuffle |-> <<>>,
                                outcome |-> "TypeError"]
             /\ UNCHANGED <<train_data, test_data>>
        ELSE IF validate_shuffle_split(test_size, Len(df.rows)) # "none"
        THEN /\ split_call' = [test_size |-> test_size, shuffle |-> <<>>,
                                outcome |-> validate_shuffle_split(test_size, Len(df.rows))]
             /\ UNCHANGED <<train_data, test_data>>
        ELSE \E shuffle \in Shuffles(Len(df.rows)) :
             /\ split_call' = [test_size |-> test_size, shuffle |-> shuffle,
                                outcome |-> "returned"]
             /\ train_data' = train_test_split(df, test_size, shuffle).train
             /\ test_data' = train_test_split(df, test_size, shuffle).test
    /\ pc' = "split"
    /\ UNCHANGED <<VALIDATOR, is_inference, to_save, disk, df, is_loaded, is_processed,
                   relevant_features, ci, err, saved, trace, seen, call, from_processed,
                   apiVars, managerVars>>

Next ==
    \/ load
    \/ load_processed
    \/ split
    \/ execute_preparation
    \/ step_validate_data
    \/ step_add_features
    \/ step_preprocess
    \/ step_clean_data
    \/ step_select_features
    \/ step_set_types
    \/ step_return

Spec == Init /\ [][Next]_vars

(***************************************************************************)
(* The outlier detectors on their own: one call of a detector on a small   *)
(* column, with every choice of its parameters.                            *)
(***************************************************************************)
MaxLen == 4

MaxFreq == 3

MaxVal == 4

Columns(values) == UNION {[1..n -> values] : n \in 0..MaxLen}

Multipliers == {<<0, 1>>, <<1, 1>>, <<3, 2>>}

CategoricalCalls ==
    { [fn |-> "categorical", col |-> col, min_freq |-> m, k |-> <<0, 1>>,
       min_value |-> 0, max_value |-> 0, done |-> FALSE, raised |-> FALSE, out |-> {}] :
        col \in Columns({"Sedan", "Jeep", "Coupe"}), m \in 0..MaxFreq }

NumericCalls ==
    { [fn |-> "numeric", col |-> col, min_freq |-> 0, k |-> k,
       min_value |-> dom[1], max_value |-> dom[2], done |-> FALSE, raised |-> FALSE,
       out |-> {}] :
        col \in Columns(0..MaxVal), k \in Multipliers,
        dom \in {<<0, MaxVal>>, <<1, MaxVal - 1>>} }

InitDetectors ==
    /\ VALIDATOR = SchemaLogical
    /\ is_inference = FALSE
    /\ to_save = FALSE
    /\ disk = NoFrame
    /\ is_loaded = FALSE
    /\ df = NoFrame
    /\ is_processed = FALSE
    /\ relevant_features = VALIDATOR.names
    /\ pc = "idle"
    /\ ci = 0
    /\ err = NoErr
    /\ saved = FALSE
    /\ trace = <<>>
    /\ seen = <<>>
    /\ \/ call \in CategoricalCalls
       \/ call \in NumericCalls
    /\ from_processed = FALSE
    /\ InitSplit
    /\ InitNoApi
    /\ InitNoManagers

call_find_outliers_categorical ==
    /\ call.fn = "categorical"
    /\ ~call.done
    /\ call' = [call EXCEPT
                  !.done = TRUE,
                  !.raised = percentage_raises(call.col),
                  !.out = IF percentage_raises(call.col) THEN {}
                          ELSE find_outliers_categorical(call.col, call.min_freq)]
    /\ UNCHANGED <<VALIDATOR, is_inference, to_save, disk, df, is_loaded, is_processed,
                   relevant_features, pc, ci, err, saved, trace, seen, from_processed,
                   splitVars, apiVars, managerVars>>

call_find_outliers_numeric ==
    /\ call.fn = "numeric"
    /\ ~call.done
    /\ call' = [call EXCEPT
                  !.done = TRUE,
                  !.raised = quantile_raises(call.col),
                  !.out = IF quantile_raises(call.col) THEN {}
                          ELSE find_outliers_numeric(call.col, call.k, call.min_value,
                                                     call.max_value)]
    /\ UNCHANGED <<VALIDATOR, is_inference, to_save, disk, df, is_loaded, is_processed,
                   relevant_features, pc, ci, err, saved, trace, seen, from_processed,
                   splitVars, apiVars, managerVars>>

NextDetectors == call_find_outliers_categorical \/ call_find_outliers_numeric

SpecDetectors == InitDetectors /\ [][NextDetectors]_vars

(***************************************************************************)
(* The callers of execute_preparation and the status they answer with      *)
(***************************************************************************)
BAD_REQUEST == 400

INTERNAL_SERVER_ERROR == 500

OK == 200

\* car_pricing: except ValueError -> BAD_REQUEST, except Exception ->
\* INTERNAL_SERVER_ERROR
car_pricing_status(exception) ==
    IF exception = "none" THEN OK
    ELSE IF exception = "ValueError" THEN BAD_REQUEST
    ELSE INTERNAL_SERVER_ERROR

\* processor.lambda_handler: except Exception -> INTERNAL_SERVER_ERROR
lambda_handler_status(exception) ==
    IF exception = "none" THEN OK ELSE INTERNAL_SERVER_ERROR

\* The status the caller of this manager answers with: inference managers
\* are built by car_pricing, training managers by the data processor.
caller_status ==
    IF is_inference THEN car_pricing_status(err.type) ELSE lambda_handler_status(err.type)

(***************************************************************************)
(* The pricing service (app/api.py): request threads run car_pricing, which *)
(* calls load_model, prepares the request and predicts.  The attributes of  *)
(* Def that api.py reads and config.py does not list (Def.Env.IS_LOCAL, the  *)
(* labels, the model directories) are taken to be set by the deployment.    *)
(***************************************************************************)
MaxThreads == 2

MaxVersion == 2

Threads == 1..MaxThreads

\* The predictor pickled at Def.Model.Dir.PATH.
LocalPredictor == 1

\* The frames car_pricing builds from its requests: a car with a category
\* outside its domain, and a row that passes validation (in the prepared
\* layout, the only one the schema lets pass).
Requests ==
    << Frame(ApiCols, <<ApiRow("Spaceship", IntCell(80000), "Petrol", FloatCell(25))>>),
       Frame(PreparedCols, <<PreparedRow("Sedan", "Yes")>>) >>

\* execute_preparation of an inference-mode manager as one function of the
\* request frame.
prepare_inference(d) ==
    LET validated == validate_data(d, TRUE)
        selected  == select_features(validated.df, VALIDATOR.names, TRUE)
    IN  IF validated.err.type # "none" THEN validated
        ELSE IF selected.err.type # "none" THEN Fail(selected.df, selected.err)
        ELSE set_types(selected.df, TRUE)

\* clean_data as one function of the frame: the detectors from the i-th on.
RECURSIVE clean_data_from(_, _)
clean_data_from(d, i) ==
    IF i > Len(CleanSpecs) THEN Ok(d)
    ELSE LET cleaned == clean_step(d, i)
         IN  IF cleaned.err.type # "none" THEN cleaned
             ELSE clean_data_from(cleaned.df, i + 1)

\* execute_preparation of a training-mode manager as one function of the
\* table.
prepare_training(d) ==
    LET added     == add_features(d)
        processed == preprocess(added.df)
        cleaned   == clean_data_from(processed.df, 1)
        selected  == select_features(cleaned.df, VALIDATOR.names, FALSE)
    IN  IF added.err.type # "none" THEN added
        ELSE IF processed.err.type # "none" THEN processed
        ELSE IF cleaned.err.type # "none" THEN cleaned
        ELSE IF selected.err.type # "none" THEN Fail(selected.df, selected.err)
        ELSE set_types(selected.df, FALSE)

\* PricingModel(dataset=None): predictor is None (0) until load.
NewModel == [predictor |-> 0]

\* A thread before its request.  handle is the local variable model of
\* car_pricing; returned and loaded record what load_model returned.
NewThread ==
    [pc |-> "idle", request |-> 0, current |-> 0, path |-> 0, handle |-> 0,
     returned |-> FALSE, loaded |-> FALSE, exc |-> "none", at |-> "none",
     status |-> 0, version |-> 0, predictor |-> 0]

\* The schema is the variant under which a request can pass validation.
InitApi ==
    /\ VALIDATOR = SchemaCategorical
    /\ is_inference = TRUE
    /\ to_save = FALSE
    /\ disk = NoFrame
    /\ is_loaded = FALSE
    /\ df = NoFrame
    /\ is_processed = FALSE
    /\ relevant_features = VALIDATOR.names
    /\ pc = "idle"
    /\ ci = 0
    /\ err = NoErr
    /\ saved = FALSE
    /\ trace = <<>>
    /\ seen = <<>>
    /\ call = NoCall
    /\ from_processed = FALSE
    /\ InitSplit
    /\ IS_LOCAL \in BOOLEAN
    /\ remote \in 0..1
    /\ model = 0
    /\ model_version = 0
    /\ model_lock = 0
    /\ heap = <<>>
    /\ th = [t \in Threads |-> NewThread]
    /\ InitNoManagers

pipelineVars ==
    <<VALIDATOR, is_inference, to_save, disk, df, is_loaded, is_processed,
      relevant_features, pc, ci, err, saved, trace, seen, call, from_processed,
      splitVars>>

\* The exception leaves the with block (the lock is released) and reaches
\* the handlers of car_pricing.
Raised(t, exception, where) ==
    [th EXCEPT ![t].exc = exception, ![t].at = where, ![t].pc = "except"]

\* POST /pricing arrives
car_pricing(t) ==
    /\ th[t].pc = "idle"
    /\ \E r \in 1..Len(Requests) :
        th' = [th EXCEPT ![t].request = r, ![t].pc = "acquire"]
    /\ UNCHANGED <<pipelineVars, managerVars, IS_LOCAL, remote, model, model_version, model_lock, heap>>

\* load_model: with model_lock
acquire(t) ==
    /\ th[t].pc = "acquire"
    /\ model_lock = 0
    /\ model_lock' = t
    /\ th' = [th EXCEPT ![t].pc = IF IS_LOCAL THEN "local_construct" ELSE "find_latest"]
    /\ UNCHANGED <<pipelineVars, managerVars, IS_LOCAL, remote, model, model_version, heap>>

\* model = PricingModel(dataset=None) of the local branch
local_construct(t) ==
    /\ th[t].pc = "local_construct"
    /\ heap' = Append(heap, NewModel)
    /\ model' = Len(heap) + 1
    /\ th' = [th EXCEPT ![t].pc = "local_load"]
    /\ UNCHANGED <<pipelineVars, managerVars, IS_LOCAL, remote, model_version, model_lock>>

\* model.load(path=Def.Model.Dir.PATH); return model, inside the with block
local_load(t) ==
    /\ th[t].pc = "local_load"
    /\ model_lock' = 0
    /\ \/ /\ heap' = [heap EXCEPT ![model].predictor = LocalPredictor]
          /\ th' = [th EXCEPT ![t].handle = model, ![t].returned = TRUE,
                               ![t].loaded = TRUE, ![t].pc = "prepare"]
       \/ /\ heap' = heap
          /\ th' = Raised(t, "UnpicklingError", "load_model")
    /\ UNCHANGED <<pipelineVars, managerVars, IS_LOCAL, remote, model, model_version>>

\* current_model_version = storage.find_latest_file(prefix='models'), which
\* is None when the listing is empty or fails;
\* if model_version != current_model_version: model_version = ...
find_latest(t) ==
    /\ th[t].pc = "find_latest"
    /\ \E current \in {remote, 0} :
        IF model_version # current
        THEN /\ model_version' = current
             /\ model_lock' = model_lock
             /\ th' = [th EXCEPT ![t].current = current, ![t].pc = "download"]
        ELSE /\ model_version' = model_version
             /\ model_lock' = 0
             /\ th' = [th EXCEPT ![t].current = current, ![t].pc = "return"]
    /\ UNCHANGED <<pipelineVars, managerVars, IS_LOCAL, remote, model, heap>>

\* storage.download_model: ValueError when it finds no file, or the error of
\* client.download_file, or the local path of what is the latest file now
download_model(t) ==
    /\ th[t].pc = "download"
    /\ \/ /\ th' = Raised(t, "ValueError", "load_model")
          /\ model_lock' = 0
       \/ /\ remote # 0
          /\ th' = Raised(t, "ClientError", "load_model")
          /\ model_lock' = 0
       \/ /\ remote # 0
          /\ th' = [th EXCEPT ![t].path = remote, ![t].pc = "construct"]
          /\ model_lock' = model_lock
    /\ UNCHANGED <<pipelineVars, managerVars, IS_LOCAL, remote, model, model_version, heap>>

\* model = PricingModel(dataset=None)
construct(t) ==
    /\ th[t].pc = "construct"
    /\ heap' = Append(heap, NewModel)
    /\ model' = Len(heap) + 1
    /\ th' = [th EXCEPT ![t].pc = "model_load"]
    /\ UNCHANGED <<pipelineVars, managerVars, IS_LOCAL, remote, model_version, model_lock>>

\* model.load(path=model_path); the with block ends
model_load(t) ==
    /\ th[t].pc = "model_load"
    /\ model_lock' = 0
    /\ \/ /\ heap' = [heap EXCEPT ![model].predictor = th[t].path]
          /\ th' = [th EXCEPT ![t].pc = "return"]
       \/ /\ heap' = heap
          /\ th' = Raised(t, "UnpicklingError", "load_model")
    /\ UNCHANGED <<pipelineVars, managerVars, IS_LOCAL, remote, model, model_version>>

\* return model, after the with block
return_model(t) ==
    /\ th[t].pc = "return"
    /\ th' = [th EXCEPT ![t].handle = model,
                         ![t].returned = TRUE,
                         ![t].loaded = (model # 0 /\ heap[model].predictor # 0),
                         ![t].pc = "prepare"]
    /\ UNCHANGED <<pipelineVars, managerVars, IS_LOCAL, remote, model, model_version, model_lock, heap>>

\* dataset = DatasetManager(..., df=input_df, is_inference=True);
\* dataset.execute_preparation(to_save=False)
prepare_request(t) ==
    /\ th[t].pc = "prepare"
    /\ LET result == prepare_inference(Requests[th[t].request])
       IN  th' = IF result.err.type # "none"
                 THEN Raised(t, result.err.type, "preparation")
                 ELSE [th EXCEPT ![t].pc = "predict"]
    /\ UNCHANGED <<pipelineVars, managerVars, IS_LOCAL, remote, model, model_version, model_lock, heap>>

\* model.predict(input_data=dataset.df): None has no predict; a model whose
\* predictor is None raises ValueError; the frame is prepared once more.
predict(t) ==
    /\ th[t].pc = "predict"
    /\ LET prepared == prepare_inference(Requests[th[t].request])
           again    == prepare_inference(prepared.df)
       IN  th' = IF th[t].handle = 0 THEN Raised(t, "AttributeError", "predict")
                 ELSE IF heap[th[t].handle].predictor = 0
                 THEN Raised(t, "ValueError", "predict")
                 ELSE IF again.err.type # "none"
                 THEN Raised(t, again.err.type, "predict")
                 ELSE [th EXCEPT ![t].predictor = heap[th[t].handle].predictor,
                                 ![t].pc = "content"]
    /\ UNCHANGED <<pipelineVars, managerVars, IS_LOCAL, remote, model, model_version, model_lock, heap>>

\* content = {'carPrice': ..., 'modelVersion': model_version}; the response
respond(t) ==
    /\ th[t].pc = "content"
    /\ th' = [th EXCEPT ![t].version = model_version,
                         ![t].status = car_pricing_status("none"),
                         ![t].pc = "done"]
    /\ UNCHANGED <<pipelineVars, managerVars, IS_LOCAL, remote, model, model_version, model_lock, heap>>

\* except ValueError / except Exception: the error response
respond_error(t) ==
    /\ th[t].pc = "except"
    /\ th' = [th EXCEPT ![t].status = car_pricing_status(th[t].exc), ![t].pc = "done"]
    /\ UNCHANGED <<pipelineVars, managerVars, IS_LOCAL, remote, model, model_version, model_lock, heap>>

\* The training job uploads a newer model file (trainer.lambda_handler).
upload_model ==
    /\ remote < MaxVersion
    /\ remote' = remote + 1
    /\ UNCHANGED <<pipelineVars, managerVars, IS_LOCAL, model, model_version, model_lock, heap, th>>

NextApi ==
    \/ upload_model
    \/ \E t \in Threads :
        \/ car_pricing(t)
        \/ acquire(t)
        \/ local_construct(t)
        \/ local_load(t)
        \/ find_latest(t)
        \/ download_model(t)
        \/ construct(t)
        \/ model_load(t)
        \/ return_model(t)
        \/ prepare_request(t)
        \/ predict(t)
        \/ respond(t)
        \/ respond_error(t)

SpecApi == InitApi /\ [][NextApi]_vars

(***************************************************************************)
(* DatasetManager instances side by side: every instance has its own table *)
(* and its own relevant_features list object; Def.Data.VALIDATOR is the    *)
(* one object all of them read.                                            *)
(***************************************************************************)
MaxManagers == 2

Managers == 1..MaxManagers

\* The tables given to the instances: a training table whose preparation
\* drops a row and one on which it raises, a request row that passes and
\* one that fails.
ManagerTables ==
    { Frame(RawCols, [j \in 1..MaxBulk |-> BulkRow(j)] \o <<RareRow(1)>>),
      Frame(RawCols, [j \in 1..MaxBulk |-> BulkRow(j)]
                     \o <<RawRow(20000, "Toyota", "Camry", 2017, "Sedan",
                                 <<"2", ".", "0">>, <<"abc", " ", "km">>)>>),
      Frame(Append(PreparedCols, "Price"),
            <<Append(PreparedRow("Sedan", "Yes"), FloatCell(200000))>>),
      Frame(ApiCols, <<ApiRow("Spaceship", IntCell(80000), "Petrol", FloatCell(25))>>) }

\* The calls: the data processor saves (to_save=True), car_pricing and
\* predict do not.
ManagerInputs ==
    { [df |-> d, is_inference |-> inference, to_save |-> ~inference] :
        d \in ManagerTables, inference \in BOOLEAN }

NoManager ==
    [pc |-> "none", input |-> NoFrame, df |-> NoFrame, is_inference |-> FALSE,
     to_save |-> FALSE, is_loaded |-> FALSE, is_processed |-> FALSE,
     relevant_features |-> 0, err |-> NoErr]

InitManagers ==
    /\ VALIDATOR \in Schemas
    /\ is_inference = FALSE
    /\ to_save = FALSE
    /\ disk = NoFrame
    /\ is_loaded = FALSE
    /\ df = NoFrame
    /\ is_processed = FALSE
    /\ relevant_features = VALIDATOR.names
    /\ pc = "idle"
    /\ ci = 0
    /\ err = NoErr
    /\ saved = FALSE
    /\ trace = <<>>
    /\ seen = <<>>
    /\ call = NoCall
    /\ from_processed = FALSE
    /\ InitSplit
    /\ InitNoApi
    /\ mgr = [m \in Managers |-> NoManager]
    /\ lists = <<>>

\* Everything but the instances, their lists and the processed file.
outsideManagers ==
    <<VALIDATOR, is_inference, to_save, disk, df, is_loaded, is_processed,
      relevant_features, pc, ci, err, trace, seen, call, from_processed,
      splitVars, apiVars>>

list_of_keys_shared(objects) == 1

\* list(Def.Data.VALIDATOR.keys()): the reference of a new list object
list_of_keys(objects) == Len(objects) + 1

\* DatasetManager(path, target, df=input_df, is_inference=...); the
\* instances are numbered in the order of their construction.
DatasetManager_init(m) ==
    /\ mgr[m].pc = "none"
    /\ \A n \in 1..(m - 1) : mgr[n].pc # "none"
    /\ \E input \in ManagerInputs :
        LET ref == list_of_keys(lists)
        IN  /\ lists' = IF ref > Len(lists) THEN Append(lists, VALIDATOR.names) ELSE lists
            /\ mgr' = [mgr EXCEPT ![m] =
                   [pc |-> "new", input |-> input.df, df |-> input.df,
                    is_inference |-> input.is_inference, to_save |-> input.to_save,
                    is_loaded |-> TRUE, is_processed |-> FALSE,
                    relevant_features |-> ref, err |-> NoErr]]
    /\ UNCHANGED <<outsideManagers, saved>>

\* A method of the instance has returned or raised.
After(m, result, next) ==
    [mgr EXCEPT ![m].df = result.df,
                ![m].err = result.err,
                ![m].pc = IF result.err.type # "none" THEN "raised" ELSE next]

\* execute_preparation of the instance, up to its first step
manager_execute_preparation(m) ==
    /\ mgr[m].pc = "new"
    /\ mgr' = IF ~mgr[m].is_loaded
              THEN After(m, Fail(mgr[m].df,
                                 Raise("ValueError", "Dataset is not loaded", "", NoCell)),
                         "raised")
              ELSE [mgr EXCEPT ![m].pc = first_step(mgr[m].is_inference)]
    /\ UNCHANGED <<outsideManagers, saved, lists>>

manager_validate_data(m) ==
    /\ mgr[m].pc = "validate_data"
    /\ mgr' = After(m, validate_data(mgr[m].df, mgr[m].is_inference), "select_features")
    /\ UNCHANGED <<outsideManagers, saved, lists>>

manager_add_features(m) ==
    /\ mgr[m].pc = "add_features"
    /\ mgr' = After(m, add_features(mgr[m].df), "preprocess")
    /\ UNCHANGED <<outsideManagers, saved, lists>>

manager_preprocess(m) ==
    /\ mgr[m].pc = "preprocess"
    /\ mgr' = After(m, preprocess(mgr[m].df), "clean_data")
    /\ UNCHANGED <<outsideManagers, saved, lists>>

manager_clean_data(m) ==
    /\ mgr[m].pc = "clean_data"
    /\ mgr' = After(m, clean_data_from(mgr[m].df, 1), "select_features")
    /\ UNCHANGED <<outsideManagers, saved, lists>>

\* select_features(self.relevant_features): remove() acts on the list
\* object the instance refers to.
manager_select_features(m) ==
    /\ mgr[m].pc = "select_features"
    /\ LET ref    == mgr[m].relevant_features
           result == select_features(mgr[m].df, lists[ref], mgr[m].is_inference)
       IN  /\ mgr' = After(m, result, "set_types")
           /\ lists' = [lists EXCEPT ![ref] = result.features]
    /\ UNCHANGED <<outsideManagers, saved>>

manager_set_types(m) ==
    /\ mgr[m].pc = "set_types"
    /\ mgr' = After(m, set_types(mgr[m].df, mgr[m].is_inference), "save")
    /\ UNCHANGED <<outsideManagers, saved, lists>>

\* if to_save: self.df.to_csv(path); self.is_processed = True; return self.df
manager_return(m) ==
    /\ mgr[m].pc = "save"
    /\ saved' = (saved \/ mgr[m].to_save)
    /\ mgr' = [mgr EXCEPT ![m].is_processed = TRUE, ![m].pc = "done"]
    /\ UNCHANGED <<outsideManagers, lists>>

NextManagers ==
    \E m \in Managers :
        \/ DatasetManager_init(m)
        \/ manager_execute_preparation(m)
        \/ manager_validate_data(m)
        \/ manager_add_features(m)
        \/ manager_preprocess(m)
        \/ manager_clean_data(m)
        \/ manager_select_features(m)
        \/ manager_set_types(m)
        \/ manager_return(m)

SpecManagers == InitManagers /\ [][NextManagers]_vars

(***************************************************************************)
(* Properties                                                              *)
(***************************************************************************)
\* execute_preparation returned its frame.
Returned == pc = "done"

\* execute_preparation was entered on a loaded table and has ended.
Ended == is_loaded /\ pc \in {"done", "raised"}

Called(name) == name \in Range(trace)

\* C1: in both modes a run that returns has called add_features, preprocess,
\* then clean_data (training) or validate_data (inference), then
\* select_features and set_types, in that order.
C1_FixedOrderBothModes ==
    Returned =>
        trace = <<"add_features", "preprocess",
                  IF is_inference THEN "validate_data" ELSE "clean_data",
                  "select_features", "set_types">>

\* C2: a preparation in inference mode that returns, returns exactly one row.
C2_InferenceReturnsOneRow == (is_inference /\ Returned) => Len(df.rows) = 1

C2_Witness == is_inference /\ Returned /\ Len(df.rows) = 1 /\ Len(disk.rows) = 1

\* C3: the single raw row of the end-to-end scenario (mileage "80000 km",
\* engine volume "2.5 Turbo", boolean leather interior, no target) is prepared
\* in inference mode into one row with isTurbo "Yes", engine volume 2.5 and
\* mileage 80000.0 as floats, and no target column.
C3_ScenarioIsPrepared ==
    (is_inference /\ Ended /\ disk = Frame(ApiCols, <<ScenarioRow>>)) =>
        /\ Returned
        /\ Len(df.rows) = 1
        /\ HasCol(df, "isTurbo") /\ df.rows[1].c["isTurbo"] = StrCell(<<"Yes">>)
        /\ df.rows[1].c["Engine volume"] = FloatCell(25)
        /\ df.rows[1].c["Mileage"] = FloatCell(800000)
        /\ ~HasCol(df, target)

\* The value is outside the feature's schema domain (a logical feature has
\* no domain; text in a numerical feature is not counted as outside).
OutsideDomain(feature, value) ==
    LET info == VALIDATOR.info[feature]
    IN  \/ info.type = "categorical" /\ ~(value.t = "str" /\ value.v \in info.values)
        \/ /\ info.type = "numerical"
           /\ IsNumber(value)
           /\ (Tenths(value) < 10 * info.min \/ Tenths(value) > 10 * info.max)

Offending(d, i) ==
    /\ d.cols[i] \in Range(VALIDATOR.names)
    /\ OutsideDomain(d.cols[i], d.rows[1].c[d.cols[i]])

\* C4: in inference mode, a single row with a feature outside its domain is
\* rejected with a ValueError that names the first such feature and its value.
C4_FirstViolationNamed ==
    (/\ is_inference
     /\ Ended
     /\ Len(disk.rows) = 1
     /\ \E i \in 1..Len(disk.cols) : Offending(disk, i)) =>
        LET first == First({i \in 1..Len(disk.cols) : Offending(disk, i)})
        IN  /\ pc = "raised"
            /\ err.type = "ValueError"
            /\ err.feature = disk.cols[first]
            /\ err.value = disk.rows[1].c[disk.cols[first]]

DetectorReturned(fn) == call.fn = fn /\ call.done /\ ~call.raised

\* C5: find_outliers_categorical does not flag a row whose value occurs
\* exactly min_freq times and flags a row whose value occurs fewer times.
C5_TieAtMinFreqNotFlagged ==
    DetectorReturned("categorical") =>
        \A i \in 1..Len(call.col) :
            /\ value_counts(call.col, call.col[i]) = call.min_freq => i \notin call.out
            /\ value_counts(call.col, call.col[i]) < call.min_freq => i \in call.out

\* The clamped bounds of the call, multiplied by the multiplier's denominator.
CallLower == lower_bound(call.col, call.k, call.min_value)

CallUpper == upper_bound(call.col, call.k, call.max_value)

Scaled(i) == call.k[2] * call.col[i]

\* C6 as stated: a row is flagged iff its value is strictly outside the
\* clamped bounds; a value equal to either clamped bound is not flagged, a
\* value one unit beyond a bound is.
C6_BoundaryNeverFlagged ==
    DetectorReturned("numeric") =>
        \A i \in 1..Len(call.col) :
            /\ i \in call.out <=> (Scaled(i) < CallLower \/ Scaled(i) > CallUpper)
            /\ (Scaled(i) = CallLower \/ Scaled(i) = CallUpper) => i \notin call.out
            /\ Scaled(i) + call.k[2] <= CallLower => i \in call.out
            /\ Scaled(i) - call.k[2] >= CallUpper => i \in call.out

\* C6 amended: a row is flagged iff its value is strictly outside the clamped
\* bounds; a value equal to one clamped bound is not flagged unless it lies
\* beyond the other bound (clamping can make the bounds cross), and a value
\* one unit beyond a bound is flagged.
C6_StrictlyOutsideBounds ==
    DetectorReturned("numeric") =>
        \A i \in 1..Len(call.col) :
            /\ i \in call.out <=> (Scaled(i) < CallLower \/ Scaled(i) > CallUpper)
            /\ (Scaled(i) = CallLower /\ Scaled(i) <= CallUpper) => i \notin call.out
            /\ (Scaled(i) = CallUpper /\ Scaled(i) >= CallLower) => i \notin call.out
            /\ Scaled(i) + call.k[2] <= CallLower => i \in call.out
            /\ Scaled(i) - call.k[2] >= CallUpper => i \in call.out

\* A value at the clamped lower bound is kept while the value one unit
\* below it is flagged.
C6_Witness ==
    /\ DetectorReturned("numeric")
    /\ CallLower = call.k[2] * call.min_value
    /\ \E i, j \in 1..Len(call.col) :
        /\ Scaled(i) = CallLower /\ i \notin call.out
        /\ call.col[j] = call.col[i] - 1 /\ j \in call.out

CleanOrder == <<"Manufacturer", "Model", "Prod. year", "Category", "Mileage", "Price">>

\* C7: in training mode the detectors run in the order Manufacturer, Model,
\* Prod. year, Category, Mileage, Price, and each one sees exactly the rows
\* the previous one saw minus the rows the previous one flagged.
C7_DropsCompound ==
    /\ Len(seen) <= Len(CleanOrder)
    /\ seen # <<>> => ~is_inference
    /\ \A j \in 1..Len(seen) :
        /\ seen[j].feature = CleanOrder[j]
        /\ seen[j].flagged \subseteq seen[j].rows
        /\ j = 1 => seen[j].rows = Ids(disk)
        /\ j > 1 => seen[j].rows = seen[j - 1].rows \ seen[j - 1].flagged
    /\ (Len(seen) = Len(CleanOrder) /\ pc # "raised") =>
        Ids(df) = seen[Len(seen)].rows \ seen[Len(seen)].flagged

\* A row is flagged for Model although its model is frequent enough in the
\* input: it is flagged only because Manufacturer removed rows before.
C7_Witness ==
    /\ Len(seen) >= 2
    /\ seen[1].flagged # {}
    /\ \E id \in seen[2].flagged :
        Cardinality({i \in 1..Len(disk.rows) :
            disk.rows[i].c["Model"] = disk.rows[id].c["Model"]}) > MIN_FREQ_MODEL

\* C8: the rows a training-mode preparation returns come from distinct rows
\* of the input, in the input's order; none is added or duplicated.
C8_TrainingRowsSubCollection ==
    (~is_inference /\ Returned) =>
        /\ Len(df.rows) <= Len(disk.rows)
        /\ \A i \in 1..Len(df.rows) :
            /\ df.rows[i].id \in 1..Len(disk.rows)
            /\ df.rows[i].c["Manufacturer"] = disk.rows[df.rows[i].id].c["Manufacturer"]
            /\ df.rows[i].c["Model"] = disk.rows[df.rows[i].id].c["Model"]
        /\ \A i, j \in 1..Len(df.rows) : i < j => df.rows[i].id < df.rows[j].id

C8_Witness ==
    /\ ~is_inference
    /\ Returned
    /\ Len(df.rows) > 0
    /\ Len(df.rows) < Len(disk.rows)

DomainErrors ==
    {"Invalid value for feature", "Feature is not valid",
     "The instance should contain exactly one row"}

\* C9: clean_data runs only in training mode and validate_data only in
\* inference mode; an inference run drops no row and a training run never
\* fails on a domain violation.
C9_ModeSelectsStep ==
    /\ Called("clean_data") => ~is_inference
    /\ Called("validate_data") => is_inference
    /\ is_inference => (seen = <<>> /\ (is_loaded => Ids(df) = Ids(disk)))
    /\ (~is_inference /\ pc = "raised") => err.what \notin DomainErrors

C9_Witness == is_inference /\ Returned /\ Called("validate_data") /\ ~Called("clean_data")

\* C10: the columns of a returned frame are the schema's feature names in
\* schema order, without the target in inference mode and with it in
\* training mode.
C10_ColumnsAreSchema ==
    Returned =>
        df.cols = Filter(VALIDATOR.names,
                         Range(VALIDATOR.names) \ (IF is_inference THEN {target} ELSE {}))

\* An inference run whose input had the target column.
C10_Witness == is_inference /\ Returned /\ HasCol(disk, target) /\ ~HasCol(df, target)

\* A numerical cell of the input that is text and no number once its unit
\* suffix is taken away.
NotANumber(x) ==
    /\ x.t = "str"
    /\ ~CanParseFloat(str_replace(str_replace(x.v, <<" ", "km">>), <<" ", "Turbo">>))

\* C11: in a returned frame every numerical feature holds floats (in
\* inference mode the target is not cast, and it is not there) and every
\* categorical and logical feature holds text; an input with a numerical
\* value that cannot be converted does not return.
C11_OutputTypesFollowSchema ==
    /\ Returned =>
          \A f \in Range(df.cols) : \A i \in 1..Len(df.rows) :
              IF VALIDATOR.info[f].type = "numerical"
              THEN (is_inference /\ f = target) \/ df.rows[i].c[f].t = "float"
              ELSE df.rows[i].c[f].t = "str"
    /\ (~is_inference /\ Returned) => HasCol(df, target)
    /\ (Ended /\ \E f \in Range(disk.cols) \cap OfType("numerical") :
                    \E i \in 1..Len(disk.rows) : NotANumber(disk.rows[i].c[f]))
          => pc = "raised"

\* A training run returned: the whole-number years and prices and the parsed
\* mileages of the input are floats now.
C11_Witness ==
    /\ ~is_inference
    /\ Returned
    /\ Len(df.rows) > 0
    /\ disk.rows[df.rows[1].id].c["Prod. year"].t = "int"
    /\ disk.rows[df.rows[1].id].c["Mileage"].t = "str"
    /\ df.rows[1].c["Prod. year"].t = "float"
    /\ df.rows[1].c["Mileage"].t = "float"

\* The method has returned (it was called and is not the one that raised).
HasReturned(name) ==
    /\ Called(name)
    /\ ~(pc = "raised" /\ trace[Len(trace)] = name)

\* The engine-volume text of the input row that a row of the frame comes from.
RawEngine(i) == disk.rows[df.rows[i].id].c["Engine volume"]

\* C12: once add_features has returned, isTurbo of every row is "Yes" iff
\* the raw engine-volume text holds the marker "Turbo", and the engine volume
\* is still that raw text until preprocess runs; once preprocess has
\* returned, the engine volume is the number the text denotes without its
\* " Turbo" suffix ("2.0 Turbo" gives Yes and 2.0, "1.6" gives No and 1.6).
C12_TurboFromRawText ==
    HasReturned("add_features") =>
        \A i \in 1..Len(df.rows) :
            /\ RawEngine(i).t = "str"
            /\ df.rows[i].c["isTurbo"] =
                  IF \E k \in 1..Len(RawEngine(i).v) : RawEngine(i).v[k] = "Turbo"
                  THEN StrCell(<<"Yes">>) ELSE StrCell(<<"No">>)
            /\ pc = "preprocess" => df.rows[i].c["Engine volume"] = RawEngine(i)
            /\ HasReturned("preprocess") =>
                  /\ df.rows[i].c["Engine volume"].t = "float"
                  /\ df.rows[i].c["Engine volume"].v =
                        ParseFloat(str_replace(RawEngine(i).v, <<" ", "Turbo">>))
                  /\ RawEngine(i).v = <<"2", ".", "0", " ", "Turbo">> =>
                        /\ df.rows[i].c["isTurbo"] = StrCell(<<"Yes">>)
                        /\ df.rows[i].c["Engine volume"] = FloatCell(20)
                  /\ RawEngine(i).v = <<"1", ".", "6">> =>
                        /\ df.rows[i].c["isTurbo"] = StrCell(<<"No">>)
                        /\ df.rows[i].c["Engine volume"] = FloatCell(16)

\* A returned training frame with a row from the text "2.0 Turbo" and a row
\* from the text "1.6".
C12_Witness ==
    /\ Returned
    /\ HasReturned("preprocess")
    /\ \E i, j \in 1..Len(df.rows) :
        /\ RawEngine(i).v = <<"2", ".", "0", " ", "Turbo">>
        /\ df.rows[i].c["isTurbo"] = StrCell(<<"Yes">>)
        /\ df.rows[i].c["Engine volume"] = FloatCell(20)
        /\ RawEngine(j).v = <<"1", ".", "6">>
        /\ df.rows[j].c["isTurbo"] = StrCell(<<"No">>)
        /\ df.rows[j].c["Engine volume"] = FloatCell(16)

\* The methods a completed run has called, in order.
FullTrace ==
    IF is_inference THEN <<"validate_data", "select_features", "set_types">>
    ELSE <<"add_features", "preprocess", "clean_data", "select_features", "set_types">>

C13_NoPartialResult ==
    /\ pc = "raised" => (err.type # "none" /\ ~is_processed /\ ~saved)
    /\ saved => is_processed
    /\ is_processed =>
          /\ pc \in {"done", "split"}
          /\ err.type = "none"
          /\ trace = FullTrace
          /\ ~is_inference => ci = Len(CleanSpecs)
    \* mileage text "abc km" fails in preprocess; nothing runs after it
    /\ (/\ ~is_inference
         /\ Ended
         /\ \E i \in 1..Len(disk.rows) :
               disk.rows[i].c["Mileage"] = StrCell(<<"abc", " ", "km">>)) =>
          /\ pc = "raised"
          /\ err.type = "ValueError"
          /\ err.feature = "Mileage"
          /\ trace = <<"add_features", "preprocess">>
    \* a domain violation fails in validate_data; nothing runs after it
    /\ (/\ is_inference
         /\ Ended
         /\ Len(disk.rows) = 1
         /\ \E i \in 1..Len(disk.cols) : Offending(disk, i)) =>
          /\ pc = "raised"
          /\ trace = <<"validate_data">>

\* C13: a step that raises ends execute_preparation: the error is the
\* outcome, no later step runs, nothing is saved and is_processed stays
\* False; is_processed is True only after every step of the run completed.
C13_FailFast == [](C13_NoPartialResult) /\ [][pc # "raised"]_vars

\* The run with mileage text "abc km" has raised in preprocess although it
\* was asked to save.
C13_Witness ==
    /\ pc = "raised"
    /\ to_save
    /\ ~saved
    /\ ~is_processed
    /\ err.type = "ValueError"
    /\ err.feature = "Mileage"
    /\ err.value = StrCell(<<"abc", " ", "km">>)
    /\ trace = <<"add_features", "preprocess">>

\* C14: a training-mode preparation of a table that is the saved output of
\* a training-mode preparation returns, and returns the same rows with the
\* same values.
C14_PrepareIdempotent ==
    (~is_inference /\ Ended /\ from_processed) =>
        /\ Returned
        /\ Len(df.rows) = Len(disk.rows)
        /\ \A i \in 1..Len(df.rows) : df.rows[i].c = disk.rows[i].c

\* C15: a preparation of a table with no rows, in either mode, and an
\* inference-mode preparation of a table with more than one row end with the
\* row-count error, raised by the first step before any other step has run,
\* and the caller answers it with a client-error status.
C15_RowCountIsClientError ==
    (Ended /\ (Len(disk.rows) = 0 \/ (is_inference /\ Len(disk.rows) > 1))) =>
        /\ pc = "raised"
        /\ err.type = "ValueError"
        /\ err.what = "The instance should contain exactly one row"
        /\ Len(trace) = 1
        /\ caller_status = BAD_REQUEST

SplitReturned == split_call.outcome = "returned"

\* C18: when split returns, no row is in both train_data and test_data,
\* every row of the dataset is in one of them, unchanged, and the two sizes
\* add up to the size of the dataset.
C18_SplitPartitions ==
    SplitReturned =>
        /\ Ids(train_data) \cap Ids(test_data) = {}
        /\ Ids(train_data) \cup Ids(test_data) = Ids(df)
        /\ Len(train_data.rows) + Len(test_data.rows) = Len(df.rows)
        /\ Cardinality(Ids(train_data)) = Len(train_data.rows)
        /\ Cardinality(Ids(test_data)) = Len(test_data.rows)
        /\ \A i \in 1..Len(df.rows) :
              \/ \E j \in 1..Len(train_data.rows) : train_data.rows[j] = df.rows[i]
              \/ \E j \in 1..Len(test_data.rows) : test_data.rows[j] = df.rows[i]

\* A prepared dataset of more than four rows split with the default
\* fraction into two non-empty parts, in shuffled order.
C18_Witness ==
    /\ SplitReturned
    /\ is_processed
    /\ split_call.test_size = FloatCell(2)
    /\ Len(df.rows) > 4
    /\ Len(test_data.rows) > 0
    /\ Len(train_data.rows) > Len(test_data.rows)
    /\ test_data.rows[1] # df.rows[1]

\* C19: split called with a test size that is not strictly between 0 and 1,
\* or on a dataset of fewer than two rows, raises ValueError and leaves
\* train_data and test_data unset.
C19_SplitRejectsBadArguments ==
    (/\ pc = "split"
     /\ is_loaded
     /\ \/ ~(0 < Tenths(split_call.test_size) /\ Tenths(split_call.test_size) < 10)
        \/ Len(df.rows) < 2) =>
        /\ split_call.outcome = "ValueError"
        /\ train_data = NoFrame
        /\ test_data = NoFrame

\* The unclamped bounds of the call from its rounded quartiles, multiplied
\* by the multiplier's denominator.
RawLower == call.k[2] * q25(call.col) - call.k[1] * (q75(call.col) - q25(call.col))

RawUpper == call.k[2] * q75(call.col) + call.k[1] * (q75(call.col) - q25(call.col))

\* C20: in find_outliers_numeric the quartiles are whole numbers at most one
\* half away from the 25th and 75th percentiles, the lower bound is the
\* larger of Q1 - k*IQR and the domain minimum, the upper bound is the
\* smaller of Q3 + k*IQR and the domain maximum; so the lower bound is never
\* below the domain minimum, the upper bound never above the domain maximum,
\* and neither bound lies outside the unclamped interval.
C20_ClampingOnlyNarrows ==
    DetectorReturned("numeric") =>
        /\ 4 * q25(call.col) - quantile_x4(call.col, 1) \in -2..2
        /\ 4 * q75(call.col) - quantile_x4(call.col, 3) \in -2..2
        /\ CallLower = IF RawLower >= call.k[2] * call.min_value
                       THEN RawLower ELSE call.k[2] * call.min_value
        /\ CallUpper = IF RawUpper <= call.k[2] * call.max_value
                       THEN RawUpper ELSE call.k[2] * call.max_value
        /\ CallLower >= call.k[2] * call.min_value
        /\ CallUpper <= call.k[2] * call.max_value
        /\ CallLower >= RawLower
        /\ CallUpper <= RawUpper

\* Both bounds are clamped, the 25th percentile lies halfway between two
\* whole numbers, and a value outside the domain is flagged.
C20_Witness ==
    /\ DetectorReturned("numeric")
    /\ RawLower < call.k[2] * call.min_value
    /\ RawUpper > call.k[2] * call.max_value
    /\ CallLower = call.k[2] * call.min_value
    /\ CallUpper = call.k[2] * call.max_value
    /\ quantile_x4(call.col, 1) % 4 = 2
    /\ call.out # {}

\* C16: under every interleaving of requests and model uploads, a model
\* object that load_model has returned to a request had its predictor
\* loaded when it was returned.
C16_ReturnedModelIsLoaded ==
    \A t \in DOMAIN th :
        (th[t].returned /\ th[t].handle # 0) => th[t].loaded

\* C17: a finished request has a response; its status is the client error
\* exactly when the preparation of the request raised a ValueError, the
\* server error for every other failure (those of load_model and of the
\* prediction included), and the success status otherwise.
C17_ErrorClasses ==
    \A t \in DOMAIN th :
        th[t].pc = "done" =>
            /\ th[t].status \in {OK, BAD_REQUEST, INTERNAL_SERVER_ERROR}
            /\ th[t].status = BAD_REQUEST <=>
                  (th[t].exc = "ValueError" /\ th[t].at = "preparation")
            /\ (th[t].exc # "none" /\ th[t].at # "preparation") =>
                  th[t].status = INTERNAL_SERVER_ERROR
            /\ th[t].exc = "none" => th[t].status = OK

\* C22: in non-local mode, whenever no call of load_model is inside the
\* with block, model_version names the storage key the current global
\* model's predictor was loaded from (and is None while no model is in
\* place): a reload that failed has not advanced it.
C22_VersionIdentifiesLoadedModel ==
    (~IS_LOCAL /\ model_lock = 0) =>
        IF model = 0 THEN model_version = 0
        ELSE heap[model].predictor = model_version

alone(input, inference) ==
    IF inference THEN prepare_inference(input) ELSE prepare_training(input)

\* C21: under every interleaving of the preparations of distinct
\* DatasetManager instances, no step changes Def.Data.VALIDATOR, a call
\* that returned has returned the frame the same call returns when run
\* alone, and a call that raised has raised the exception it raises alone.
C21_ResultsAsAlone ==
    \A m \in DOMAIN mgr :
        /\ mgr[m].pc = "done" =>
              /\ alone(mgr[m].input, mgr[m].is_inference).err.type = "none"
              /\ mgr[m].df = alone(mgr[m].input, mgr[m].is_inference).df
        /\ mgr[m].pc = "raised" =>
              mgr[m].err = alone(mgr[m].input, mgr[m].is_inference).err

C21_NoSharedMutableState ==
    [](C21_ResultsAsAlone) /\ [][VALIDATOR' = VALIDATOR]_vars

\* An inference instance has removed the target from its list and returned,
\* a training instance has returned a table that kept the target, and a
\* third outcome, a raised call, is covered by the other inputs.
C21_Witness ==
    /\ DOMAIN mgr = Managers
    /\ mgr[1].pc = "done" /\ mgr[1].is_inference
    /\ mgr[2].pc = "done" /\ ~mgr[2].is_inference
    /\ target \notin Range(lists[mgr[1].relevant_features])
    /\ target \in Range(lists[mgr[2].relevant_features])
    /\ HasCol(mgr[2].df, target)
    /\ Len(mgr[2].df.rows) < Len(mgr[2].input.rows)

=============================================================================
